---- MODULE Spec2Model ----
(***************************************************************************)
(* A model of the subscription-refresh pipeline of src/get_trial.py:      *)
(* new_panel_session, get_and_save, try_turn, get_sub, save_sub,          *)
(* cache_sub_info and save_sub_base64_and_clash, run by tasks that share  *)
(* one cache mapping and the module-level cache_lock.                     *)
(*                                                                         *)
(* A program counter "L<n>" means: the task is about to execute line n of *)
(* src/get_trial.py.  The functions the file calls but does not define    *)
(* (try_checkin, should_turn, do_turn, guess_panel, requests.get,         *)
(* gen_base64_and_clash_config) are nondeterministic: each either raises  *)
(* or returns one of a bounded set of values.                             *)
(*                                                                         *)
(* TLA+ strings are ASCII, so the cache keys and log lines written in     *)
(* Chinese in the source carry the wording of the English twin            *)
(* src/get_trial_update_url.py; each definition quotes the source line.   *)
(***************************************************************************)
EXTENDS Integers, Sequences, FiniteSets, TLC

VARIABLES
  cache,   \* the shared mapping: key -> value (get_trial.py:180)
  lock,    \* cache_lock: the set of tasks holding it, {} when free (get_trial.py:19)
  log,     \* the log list, kept per appending task (get_trial.py:181)
  pc,      \* each task's position: the next source line it executes
  turn,    \* try_turn's local `turn` (get_trial.py:58)
  sub,     \* try_turn's local `sub` (get_trial.py:58, 76)
  ret,     \* what try_turn returned to get_and_save (get_trial.py:159)
  err,     \* str(e) of the exception being handled
  node_n,  \* save_sub's local `node_n` (get_trial.py:145)
  world,   \* which inputs the outside delivers in this run: "any" or "few"
  trace,   \* history: what this call did, and the cache it started from
  client   \* 01.py: the APIClient, its caller's position and logging output

vars == <<cache, lock, log, pc, turn, sub, ret, err, node_n, world, trace,
         client>>

\* ------------------------------------------------------------------ bounds

\* How many tasks share the cache under SpecConc.
NumTasks == 2
\* The node counts gen_base64_and_clash_config may report: 0..MaxNodes.
MaxNodes == 2
\* A node count of two digits, for runs that save more than once.
ManyNodes == 12
\* Cycles of get_and_save run on one cache.
MaxCycles == 2

\* ------------------------------------------------------------ python values

\* A list of strings, the value type the annotation dict[str, list[str]] names.
List(items) == [ty |-> "list", v |-> items]
\* A bare str; v holds its characters.
Str(chars) == [ty |-> "str", v |-> chars]

Digit(d) == <<"0", "1", "2", "3", "4", "5", "6", "7", "8", "9">>[d + 1]

\* str(n) for n >= 0: the decimal digits, most significant first.
RECURSIVE str(_)
str(n) == IF n < 10 THEN <<Digit(n)>> ELSE Append(str(n \div 10), Digit(n % 10))

DigitValue(c) == CHOOSE d \in 0..9 : Digit(d) = c

\* int(s) for a string of decimal digits.
RECURSIVE int(_)
int(s) == IF Len(s) = 0 THEN 0
          ELSE 10 * int(SubSeq(s, 1, Len(s) - 1)) + DigitValue(s[Len(s)])

\* ------------------------------------------------------------- cache keys

SUB_URL == "sub_url"
SUB_INFO == "sub_info"
NODE_N == "node_n"
TYPE == "type"
API_HOST == "api_host"
\* '更新旧订阅失败' (get_trial.py:51, 61)
OLD_SUB_FAILED == "update_old_sub_failed"
\* '更新订阅链接/续费续签失败' (get_trial.py:52, 72)
TURN_FAILED == "renew_failed"
\* '获取订阅失败' (get_trial.py:53, 80)
GET_SUB_FAILED == "get_sub_failed"
\* '保存订阅信息失败' (get_trial.py:134, 141)
SAVE_INFO_FAILED == "save_sub_info_failed"
\* '保存base64/clash订阅失败' (get_trial.py:135, 152)
SAVE_B64_FAILED == "save_base64_clash_failed"

TurnMarkers == {OLD_SUB_FAILED, TURN_FAILED, GET_SUB_FAILED}
SaveMarkers == {SAVE_INFO_FAILED, SAVE_B64_FAILED}
Markers == TurnMarkers \cup SaveMarkers

\* dict operations
Has(c, k) == k \in DOMAIN c
\* c.pop(k, None)
Pop(c, k) == [x \in DOMAIN c \ {k} |-> c[x]]
\* c[k] = v
Put(c, k, v) == [x \in DOMAIN c \cup {k} |-> IF x = k THEN v ELSE c[x]]
\* c.update(d)
Update(c, d) == [x \in DOMAIN c \cup DOMAIN d |-> IF x \in DOMAIN d THEN d[x] ELSE c[x]]

\* g0(d, k, default): the first element of d[k], or default when k is absent.
\* Of a list it is the first string; of a bare str, its first character.
g0(c, k, default) ==
  IF ~Has(c, k) THEN default
  ELSE IF c[k].ty = "list" THEN c[k].v[1] ELSE <<c[k].v[1]>>

\* ------------------------------------------------- subscription info (JSON)

\* A subscription info dict: `has` are the keys present, `bad` the keys whose
\* value float() rejects; expire = 0 is a missing or falsy 'expire'.
Info(has, bad, u, d, t, e) ==
  [has |-> has, bad |-> bad, upload |-> u, download |-> d, total |-> t, expire |-> e]

TrafficKeys == {"upload", "download", "total"}

EmptyInfo == Info({}, {}, 0, 0, 0, 0)

\* The info payloads should_turn and response.json() may deliver.
Infos ==
  { EmptyInfo,
    Info({"upload", "download"}, {}, 1, 1, 0, 0),
    Info(TrafficKeys, {"upload"}, 0, 1, 2, 0),
    Info(TrafficKeys, {}, 1, 1, 3, 0),
    Info(TrafficKeys \cup {"expire"}, {}, 2, 1, 2, 7) }

\* `not info`: an empty dict is falsy.
Falsy(info) == info.has = {}

\* size2str(n), from utils: a rendering that keeps n apart from any other size.
size2str(n) == IF n < 0 THEN <<"-">> \o str(0 - n) \o <<"B">> ELSE str(n) \o <<"B">>

\* float(info[k]) for k = upload, download, total in the order of lines 93-94:
\* the exception the first failing key raises, "" when all three convert.
FloatError(info) ==
  LET bad(k) == k \notin info.has \/ k \in info.bad
      kind(k) == IF k \notin info.has THEN "KeyError" ELSE "ValueError"
  IN IF bad("upload") THEN kind("upload")
     ELSE IF bad("download") THEN kind("download")
     ELSE IF bad("total") THEN kind("total")
     ELSE ""

\* The list line 104 stores: [size2str(used), size2str(total), expire, rest].
\* opt is the driver's {} (line 182), so opt.get('expire') is None.
SubInfoOf(info) ==
  LET used == info.upload + info.download
      total == info.total
      never == info.expire = 0
      expire == IF never THEN <<"never expires">> ELSE <<"ts">> \o str(info.expire)
      rest == <<"(rest ">> \o size2str(total - used)
              \o (IF never THEN <<>> ELSE <<" ", "timedelta">>) \o <<")">>
  IN List(<<size2str(used), size2str(total), expire, rest>>)

\* What should_turn returns after `turn`: nothing, or the five values
\* save_sub takes before host (info, base64, clash, base64_url, clash_url).
Sub5(info) == <<info, "base64", "clash", "base64_url", "clash_url">>
DecisionSubs(infos) == {<<>>} \cup {Sub5(i) : i \in infos}

\* should_turn's codes: 0 = no renewal, 1 = renew, 2 = force re-register.
TurnCodes == {0, 1, 2}

\* guess_panel's results: a detected type, an error, or nothing at all.
EmptyDict == [x \in {} |-> x]
PanelInfos ==
  { [x \in {TYPE, API_HOST} |-> IF x = TYPE THEN List(<<<<"v2board">>>>)
                                 ELSE List(<<<<"api.example.com">>>>)],
    [x \in {"error"} |-> List(<<<<"probe failed">>>>)],
    EmptyDict }

\* The exceptions requests.get / response.json() raise in get_sub.
FetchErrors == {"Timeout", "ConnectionError", "Exception"}

\* The inputs of a run.  "any": every value above.  "few": one value for each
\* branch of the code, for the runs that interleave several tasks.
Turns(w) == IF w = "any" THEN TurnCodes ELSE {0, 1}
Subs(w) == IF w = "any" THEN DecisionSubs(Infos)
           ELSE {Sub5(EmptyInfo), Sub5(Info(TrafficKeys, {}, 1, 1, 3, 0))}
Fetched(w) == IF w = "any" THEN Infos ELSE {EmptyInfo}
Errors(w) == IF w = "any" THEN FetchErrors ELSE {"Timeout", "Exception"}
Nodes(w) == CASE w = "any" -> 0..MaxNodes
             [] w = "again" -> {MaxNodes, ManyNodes}
             [] OTHER -> {MaxNodes}

\* ------------------------------------------------------------ task state

NoTrace == [did |-> {}, dsub |-> <<>>, force |-> FALSE, pre |-> EmptyDict,
            presave |-> EmptyDict, cycle |-> 1, logged |-> 0]

\* try_turn's return value: None, or a list.
None == [none |-> TRUE, val |-> <<>>]
Some(s) == [none |-> FALSE, val |-> s]
\* Line 160 written `if sub is not None`.
NotNone(r) == ~r.none
\* `if sub:` (line 160)
Truthy(r) == ~r.none /\ Len(r.val) > 0

\* cache = {'sub_url': [...]} (line 180), plus what an earlier cycle on the
\* same cache may have left: failure markers, a sub_info entry, a panel type.
DriverCache == [x \in {SUB_URL} |-> List(<<<<"https://example.com/sub">>>>)]
Stale(k) == IF k = SUB_INFO THEN SubInfoOf(Info(TrafficKeys, {}, 0, 0, 1, 0))
            ELSE IF k = TYPE THEN List(<<<<"sspanel">>>>)
            ELSE List(<<<<"stale">>>>)
EarlierCaches ==
  { [x \in {SUB_URL} \cup ks |-> IF x = SUB_URL THEN DriverCache[SUB_URL] ELSE Stale(x)]
      : ks \in SUBSET (Markers \cup {SUB_INFO, TYPE}) }

\* 01.py is a separate script: while get_trial.py runs there is no client.
NoClient == [pc |-> "off"]

\* The task slots; a slot no task was submitted to stays "idle".
Pool == 1..NumTasks

InitTasks(tasks, caches, w) ==
  /\ cache \in caches
  /\ world = w
  /\ lock = {}
  /\ log = [t \in Pool |-> <<>>]
  /\ pc = [t \in Pool |-> IF t \in tasks THEN "L166" ELSE "idle"]
  /\ turn = [t \in Pool |-> 0]
  /\ sub = [t \in Pool |-> <<>>]
  /\ ret = [t \in Pool |-> None]
  /\ err = [t \in Pool |-> ""]
  /\ node_n = [t \in Pool |-> 0]
  /\ trace = [t \in Pool |-> NoTrace]

\* One task, the sample driver (lines 179-188), on any earlier cache.
Init == InitTasks({1}, EarlierCaches, "any") /\ client = NoClient

\* Tasks on the same cache, each started by the driver's pool (line 185).
InitConc == InitTasks(Pool, {DriverCache}, "few") /\ client = NoClient

\* log.append(entry)
Logged(t, entries) == [log EXCEPT ![t] = @ \o entries]
Goto(t, l) == [pc EXCEPT ![t] = l]
Did(t, what) == [trace EXCEPT ![t].did = @ \cup {what}]

\* ------------------------------------------------------------ cache_lock

\* The lines that enter `with cache_lock:`.
WithLines == {"L43", "L50", "L60", "L71", "L79", "L103", "L133", "L140",
              "L146", "L151", "L166"}

\* The first line of the block a `with` line guards.
BodyOf(l) ==
  CASE l = "L43" -> "L44"   [] l = "L50" -> "L51"   [] l = "L60" -> "L61"
    [] l = "L71" -> "L72"   [] l = "L79" -> "L80"   [] l = "L103" -> "L104"
    [] l = "L133" -> "L134" [] l = "L140" -> "L141" [] l = "L146" -> "L147"
    [] l = "L151" -> "L152" [] l = "L166" -> "L167"

\* Lock.acquire(): blocks until the lock is free.
CanAcquire(t) == lock = {}

\* acquire with line 166 not a `with`: lines 167-175 run without the lock.
acquire_but_line_166(t) ==
  /\ pc[t] \in WithLines
  /\ IF pc[t] = "L166" THEN lock' = lock ELSE CanAcquire(t) /\ lock' = {t}
  /\ pc' = Goto(t, BodyOf(pc[t]))
  /\ UNCHANGED <<cache, log, turn, sub, ret, err, node_n, world, trace, client>>

\* acquire with line 60 not a `with`: line 61 runs without the lock.
acquire_but_line_60(t) ==
  /\ pc[t] \in WithLines
  /\ IF pc[t] = "L60" THEN lock' = lock ELSE CanAcquire(t) /\ lock' = {t}
  /\ pc' = Goto(t, BodyOf(pc[t]))
  /\ UNCHANGED <<cache, log, turn, sub, ret, err, node_n, world, trace, client>>

\* `with cache_lock:` entered.
acquire(t) ==
  /\ pc[t] \in WithLines
  /\ CanAcquire(t)
  /\ lock' = {t}
  /\ pc' = Goto(t, BodyOf(pc[t]))
  /\ UNCHANGED <<cache, log, turn, sub, ret, err, node_n, world, trace, client>>

\* Leaving the `with` block, by its end, a return or an exception.
Release(t) == lock \ {t}

\* -------------------------------------------------- new_panel_session

\* Line 167, inside the lock: `if 'type' not in cache:`.
new_panel_session_check(t) ==
  /\ pc[t] = "L167"
  /\ IF Has(cache, TYPE)
     THEN lock' = Release(t) /\ pc' = Goto(t, "L176")
     ELSE lock' = lock /\ pc' = Goto(t, "L168")
  /\ UNCHANGED <<cache, log, turn, sub, ret, err, node_n, world, trace, client>>

\* The entry line 171 or 173 appends for a result without 'type'.
DetectionFailure(info) ==
  IF Has(info, "error") THEN <<"type detection failed">> ELSE <<"unknown type">>

\* Lines 169-175 with cache.update(info) ahead of the 'type' test.
MergedFirst(c, info) == Update(c, info)

\* The cache after lines 169-175: cache.update(info) unless info lacks 'type'.
Merged(c, info) == IF Has(info, TYPE) THEN Update(c, info) ELSE c

\* new_panel_session_detect holding the lock across `return None`, as an
\* acquire()/release() pair around the block without try/finally would.
new_panel_session_detect_keeps_lock(t) ==
  /\ pc[t] = "L168"
  /\ \E info \in PanelInfos :
       /\ cache' = Merged(cache, info)
       /\ IF Has(info, TYPE)
          THEN /\ trace' = [trace EXCEPT ![t].did = @ \cup {"guess_panel", "detected"}]
               /\ pc' = Goto(t, "L176")
               /\ lock' = Release(t)
               /\ UNCHANGED log
          ELSE /\ trace' = Did(t, "guess_panel")
               /\ log' = Logged(t, DetectionFailure(info))
               /\ pc' = Goto(t, "no_session")
               /\ lock' = lock
  /\ UNCHANGED <<turn, sub, ret, err, node_n, world, client>>

\* Lines 168-175, inside the lock: info = guess_panel(host); without 'type'
\* log and `return None`, else cache.update(info).
new_panel_session_detect(t) ==
  /\ pc[t] = "L168"
  /\ lock' = Release(t)
  /\ \E info \in PanelInfos :
       /\ cache' = Merged(cache, info)
       /\ IF Has(info, TYPE)
          THEN /\ trace' = [trace EXCEPT ![t].did = @ \cup {"guess_panel", "detected"}]
               /\ pc' = Goto(t, "L176")
               /\ UNCHANGED log
          ELSE /\ trace' = Did(t, "guess_panel")
               /\ log' = Logged(t, DetectionFailure(info))
               /\ pc' = Goto(t, "no_session")
  /\ UNCHANGED <<turn, sub, ret, err, node_n, world, client>>

\* Line 176 builds the session from cache['type'], outside the lock; the driver
\* (lines 186-188) then submits get_and_save.
new_panel_session_return(t) ==
  /\ pc[t] = "L176"
  /\ pc' = Goto(t, "L157")
  /\ trace' = Did(t, "session")
  /\ UNCHANGED <<cache, lock, log, turn, sub, ret, err, node_n, world, client>>

\* ------------------------------------------------------- get_and_save

\* Lines 157-158: log, then try_checkin, which no handler wraps.
get_and_save_start(t) ==
  /\ pc[t] = "L157"
  /\ log' = Logged(t, <<"start processing">>)
  /\ trace' = [trace EXCEPT ![t].pre = cache, ![t].did = @ \cup {"try_checkin"}]
  /\ \E raised \in BOOLEAN :
       pc' = Goto(t, IF raised THEN "raised" ELSE "L50")
  /\ UNCHANGED <<cache, lock, turn, sub, ret, err, node_n, world, client>>

\* ----------------------------------------------------------- try_turn

\* try_turn_pop with line 53 missing: the fetch marker is not popped.
try_turn_pop_two(t) ==
  /\ pc[t] = "L51"
  /\ cache' = Pop(Pop(cache, OLD_SUB_FAILED), TURN_FAILED)
  /\ lock' = Release(t)
  /\ pc' = Goto(t, "L55")
  /\ UNCHANGED <<log, turn, sub, ret, err, node_n, world, trace, client>>

\* try_turn_pop with line 52 missing: the renewal marker is not popped.
try_turn_pop_but_renewal(t) ==
  /\ pc[t] = "L51"
  /\ cache' = Pop(Pop(cache, OLD_SUB_FAILED), GET_SUB_FAILED)
  /\ lock' = Release(t)
  /\ pc' = Goto(t, "L55")
  /\ UNCHANGED <<log, turn, sub, ret, err, node_n, world, trace, client>>

\* Lines 51-53: pop the three markers.
try_turn_pop(t) ==
  /\ pc[t] = "L51"
  /\ cache' = Pop(Pop(Pop(cache, OLD_SUB_FAILED), TURN_FAILED), GET_SUB_FAILED)
  /\ lock' = Release(t)
  /\ pc' = Goto(t, "L55")
  /\ UNCHANGED <<log, turn, sub, ret, err, node_n, world, trace, client>>

\* Line 65 written `if turn == 1`: a forced re-registration is not renewed.
AfterDecisionOnlyRenew(tn) == IF tn = 1 THEN "L68" ELSE "L83"

\* Where try_turn goes after should_turn returned `turn` (line 65).
AfterDecision(tn) == IF tn # 0 THEN "L68" ELSE "L83"

\* Lines 55-59: log, then `turn, *sub = should_turn(session, opt, cache)`.
should_turn_step(t) ==
  /\ pc[t] = "L55"
  /\ log' = Logged(t, <<"attempting to update">>)
  /\ \/ /\ err' = [err EXCEPT ![t] = "should_turn failed"]
        /\ pc' = Goto(t, "L60")
        /\ trace' = Did(t, "should_turn")
        /\ UNCHANGED <<turn, sub>>
     \/ \E tn \in Turns(world), s \in Subs(world) :
          /\ turn' = [turn EXCEPT ![t] = tn]
          /\ sub' = [sub EXCEPT ![t] = s]
          /\ pc' = Goto(t, AfterDecision(tn))
          /\ trace' = [trace EXCEPT ![t].did = @ \cup {"should_turn", "decided"},
                                    ![t].dsub = s]
          /\ UNCHANGED err
  /\ UNCHANGED <<cache, lock, ret, node_n, world, client>>

\* Line 61, inside the lock: cache['更新旧订阅失败'] = [str(e)].
try_turn_old_failed(t) ==
  /\ pc[t] = "L61"
  /\ cache' = Put(cache, OLD_SUB_FAILED, List(<<<<err[t]>>>>))
  /\ lock' = Release(t)
  /\ pc' = Goto(t, "L62")
  /\ UNCHANGED <<log, turn, sub, ret, err, node_n, world, trace, client>>

\* What try_turn returns when the decision step failed (line 63).
DecisionFailedResult(t) == None

\* Lines 62-63: the log line reads cache["sub_url"][0]; return None.
try_turn_old_failed_return(t) ==
  /\ pc[t] = "L62"
  /\ log' = Logged(t, <<"failed to update old subscription">>)
  /\ ret' = [ret EXCEPT ![t] = DecisionFailedResult(t)]
  /\ pc' = Goto(t, "L160")
  /\ trace' = Did(t, "returned")
  /\ UNCHANGED <<cache, lock, turn, sub, err, node_n, world, client>>

\* Lines 68-70: do_turn(..., force_reg=turn == 2).
do_turn_step(t) ==
  /\ pc[t] = "L68"
  /\ \/ /\ log' = Logged(t, <<"update executed">>)
        /\ pc' = Goto(t, "L23")
        /\ trace' = [trace EXCEPT ![t].did = @ \cup {"do_turn", "turned"},
                                  ![t].force = (turn[t] = 2)]
        /\ UNCHANGED err
     \/ /\ err' = [err EXCEPT ![t] = "do_turn failed"]
        /\ pc' = Goto(t, "L71")
        /\ trace' = [trace EXCEPT ![t].did = @ \cup {"do_turn"},
                                  ![t].force = (turn[t] = 2)]
        /\ UNCHANGED log
  /\ UNCHANGED <<cache, lock, turn, sub, ret, node_n, world, client>>

\* Line 72, inside the lock: cache['更新订阅链接/续费续签失败'] = [str(e)].
try_turn_turn_failed(t) ==
  /\ pc[t] = "L72"
  /\ cache' = Put(cache, TURN_FAILED, List(<<<<err[t]>>>>))
  /\ lock' = Release(t)
  /\ pc' = Goto(t, "L73")
  /\ UNCHANGED <<log, turn, sub, ret, err, node_n, world, trace, client>>

\* Line 74 missing: the handler falls through to the fetch of line 76.
AfterTurnFailedFallThrough == "L23"

\* Where try_turn goes once the renewal failure is logged: line 74 returns.
AfterTurnFailed == "L83"

\* Lines 73-74: log, `return sub`.
try_turn_turn_failed_return(t) ==
  /\ pc[t] = "L73"
  /\ log' = Logged(t, <<"failed to update/renew">>)
  /\ pc' = Goto(t, AfterTurnFailed)
  /\ UNCHANGED <<cache, lock, turn, sub, ret, err, node_n, world, trace, client>>

\* ------------------------------------------------------------ get_sub

\* Lines 23-28: read cache['sub_url'][0] (outside the lock), log.
get_sub_start(t) ==
  /\ pc[t] = "L23"
  /\ log' = Logged(t, <<"starting fetch">>)
  /\ trace' = Did(t, "get_sub")
  /\ pc' = Goto(t, "L31")
  /\ UNCHANGED <<cache, lock, turn, sub, ret, err, node_n, world, client>>

\* What get_sub returns for a fetched info (line 34): a one-element list.
FetchedSub(info) == <<info>>

\* Lines 31-42: requests.get and response.json(); on success line 76 assigns
\* the returned list to `sub`.
get_sub_request(t) ==
  /\ pc[t] = "L31"
  /\ \/ \E info \in Fetched(world) :
          /\ sub' = [sub EXCEPT ![t] = FetchedSub(info)]
          /\ log' = Logged(t, <<"fetched">>)
          /\ trace' = Did(t, "fetched")
          /\ pc' = Goto(t, "L77")
          /\ UNCHANGED err
     \/ \E e \in Errors(world) :
          /\ err' = [err EXCEPT ![t] = e]
          /\ log' = Logged(t, IF e = "Timeout" THEN <<"fetch timed out">>
                              ELSE IF e = "ConnectionError" THEN <<"connection error">>
                              ELSE <<"failed to fetch">>)
          /\ pc' = Goto(t, IF e = "Exception" THEN "L43" ELSE "L79")
          /\ UNCHANGED <<sub, trace>>
  /\ UNCHANGED <<cache, lock, turn, ret, node_n, world, client>>

\* Lines 44-46, inside the lock: rebuild the local url, then re-raise.
get_sub_rewrite(t) ==
  /\ pc[t] = "L44"
  /\ lock' = Release(t)
  /\ pc' = Goto(t, "L79")
  /\ UNCHANGED <<cache, log, turn, sub, ret, err, node_n, world, trace, client>>

\* Line 77: the fetch succeeded.
try_turn_fetched(t) ==
  /\ pc[t] = "L77"
  /\ log' = Logged(t, <<"fetched new subscription">>)
  /\ pc' = Goto(t, "L83")
  /\ UNCHANGED <<cache, lock, turn, sub, ret, err, node_n, world, trace, client>>

\* Line 80 writing the renewal key of line 72 instead of its own.
try_turn_get_failed_wrong_key(t) ==
  /\ pc[t] = "L80"
  /\ cache' = Put(cache, TURN_FAILED, List(<<<<err[t]>>>>))
  /\ lock' = Release(t)
  /\ pc' = Goto(t, "L81")
  /\ UNCHANGED <<log, turn, sub, ret, err, node_n, world, trace, client>>

\* Line 80, inside the lock: cache['获取订阅失败'] = [str(e)].
try_turn_get_failed(t) ==
  /\ pc[t] = "L80"
  /\ cache' = Put(cache, GET_SUB_FAILED, List(<<<<err[t]>>>>))
  /\ lock' = Release(t)
  /\ pc' = Goto(t, "L81")
  /\ UNCHANGED <<log, turn, sub, ret, err, node_n, world, trace, client>>

\* Line 81: the log line reads cache["sub_url"][0]; `sub` keeps its value.
try_turn_get_failed_log(t) ==
  /\ pc[t] = "L81"
  /\ log' = Logged(t, <<"failed to fetch subscription">>)
  /\ pc' = Goto(t, "L83")
  /\ UNCHANGED <<cache, lock, turn, sub, ret, err, node_n, world, trace, client>>

\* Lines 74 and 83: `return sub`.
try_turn_return(t) ==
  /\ pc[t] = "L83"
  /\ ret' = [ret EXCEPT ![t] = Some(sub[t])]
  /\ pc' = Goto(t, "L160")
  /\ trace' = Did(t, "returned")
  /\ UNCHANGED <<cache, lock, log, turn, sub, err, node_n, world, client>>

\* ------------------------------------------------- get_and_save, line 160

\* save_sub(info, base64, clash, base64_url, clash_url, host, opt, cache, log)
\* is called as save_sub(*sub, host, opt, cache, log): the call binds only
\* when sub has five elements, and raises TypeError otherwise.
Binds(s) == Len(s) = 5

\* Lines 160-161: `if sub: save_sub(*sub, host, opt, cache, log)`.
get_and_save_dispatch(t) ==
  /\ pc[t] = "L160"
  /\ IF Truthy(ret[t])
     THEN IF Binds(ret[t].val)
          THEN /\ pc' = Goto(t, "L133")
               /\ trace' = [trace EXCEPT ![t].did = @ \cup {"save_sub"},
                                         ![t].presave = cache]
          ELSE /\ pc' = Goto(t, "raised")
               /\ trace' = Did(t, "TypeError")
     ELSE /\ pc' = Goto(t, "L162")
          /\ UNCHANGED trace
  /\ UNCHANGED <<cache, lock, log, turn, sub, ret, err, node_n, world, client>>

\* Line 162: the closing log line.
get_and_save_end(t) ==
  /\ pc[t] = "L162"
  /\ log' = Logged(t, <<"completed processing">>)
  /\ pc' = Goto(t, "done")
  /\ UNCHANGED <<cache, lock, turn, sub, ret, err, node_n, world, trace, client>>

\* The driver's lines 186-188 run again on the same cache and session: the
\* next cycle of get_and_save, its locals fresh.
get_and_save_again(t) ==
  /\ pc[t] = "done"
  /\ trace[t].cycle < MaxCycles
  /\ pc' = Goto(t, "L157")
  /\ turn' = [turn EXCEPT ![t] = 0]
  /\ sub' = [sub EXCEPT ![t] = <<>>]
  /\ ret' = [ret EXCEPT ![t] = None]
  /\ err' = [err EXCEPT ![t] = ""]
  /\ node_n' = [node_n EXCEPT ![t] = 0]
  /\ trace' = [trace EXCEPT ![t] = [NoTrace EXCEPT !.cycle = trace[t].cycle + 1,
                                                   !.logged = Len(log[t])]]
  /\ UNCHANGED <<cache, lock, log, world, client>>

\* ------------------------------------------------------------ save_sub

\* save_sub's parameter `info`.
InfoArg(t) == ret[t].val[1]

\* Lines 134-135: pop the two save markers.
save_sub_pop(t) ==
  /\ pc[t] = "L134"
  /\ cache' = Pop(Pop(cache, SAVE_INFO_FAILED), SAVE_B64_FAILED)
  /\ lock' = Release(t)
  /\ pc' = Goto(t, "L138")
  /\ UNCHANGED <<log, turn, sub, ret, err, node_n, world, trace, client>>

\* cache_sub_info without the emptiness check of lines 87-89.
CacheSubInfoErrorUnchecked(info) == FloatError(info)

\* cache_sub_info, lines 87-102 and 106-111: what it raises before it reaches
\* the lock, "" when it goes on to store.
CacheSubInfoError(info) == IF Falsy(info) THEN "no sub info" ELSE FloatError(info)

\* Lines 138, 87-102: cache_sub_info up to the lock.
cache_sub_info_step(t) ==
  /\ pc[t] = "L138"
  /\ trace' = Did(t, "cache_sub_info")
  /\ LET e == CacheSubInfoError(InfoArg(t)) IN
       IF e # ""
       THEN /\ err' = [err EXCEPT ![t] = e]
            /\ log' = Logged(t, IF e = "no sub info" THEN <<"info is empty">>
                                ELSE IF e = "KeyError"
                                     THEN <<"start caching info", "missing key">>
                                     ELSE <<"start caching info", "invalid value">>)
            /\ pc' = Goto(t, "L140")
       ELSE /\ log' = Logged(t, <<"start caching info">>)
            /\ pc' = Goto(t, "L103")
            /\ UNCHANGED err
  /\ UNCHANGED <<cache, lock, turn, sub, ret, node_n, world, client>>

\* Line 104, inside the lock: cache['sub_info'] = [...].
cache_sub_info_store(t) ==
  /\ pc[t] = "L104"
  /\ cache' = Put(cache, SUB_INFO, SubInfoOf(InfoArg(t)))
  /\ lock' = Release(t)
  /\ pc' = Goto(t, "L105")
  /\ UNCHANGED <<log, turn, sub, ret, err, node_n, world, trace, client>>

\* Line 105: cache_sub_info returns normally.
cache_sub_info_done(t) ==
  /\ pc[t] = "L105"
  /\ log' = Logged(t, <<"cached info">>)
  /\ pc' = Goto(t, "L145")
  /\ UNCHANGED <<cache, lock, turn, sub, ret, err, node_n, world, trace, client>>

\* Line 141, inside the lock: cache['保存订阅信息失败'] = [str(e)].
save_sub_info_failed(t) ==
  /\ pc[t] = "L141"
  /\ cache' = Put(cache, SAVE_INFO_FAILED, List(<<<<err[t]>>>>))
  /\ lock' = Release(t)
  /\ pc' = Goto(t, "L142")
  /\ UNCHANGED <<log, turn, sub, ret, err, node_n, world, trace, client>>

\* The handler of lines 139-142 returning instead of going on.
AfterInfoFailedReturn == "L162"

\* Where save_sub continues after the handler of lines 139-142.
AfterInfoFailed == "L145"

\* Line 142: log; the second try block follows.
save_sub_info_failed_log(t) ==
  /\ pc[t] = "L142"
  /\ log' = Logged(t, <<"failed to save subscription info">>)
  /\ pc' = Goto(t, AfterInfoFailed)
  /\ UNCHANGED <<cache, lock, turn, sub, ret, err, node_n, world, trace, client>>

\* Lines 145, 113-129: save_sub_base64_and_clash.
save_sub_base64_and_clash(t) ==
  /\ pc[t] = "L145"
  /\ \/ \E n \in Nodes(world) :
          /\ node_n' = [node_n EXCEPT ![t] = n]
          /\ log' = Logged(t, <<"start saving config", "saved config">>)
          /\ pc' = Goto(t, "L146")
          /\ trace' = [trace EXCEPT ![t].did = @ \cup {"save_sub_base64_and_clash", "saved"}]
          /\ UNCHANGED err
     \/ /\ err' = [err EXCEPT ![t] = "gen failed"]
        /\ log' = Logged(t, <<"start saving config", "failed to save config">>)
        /\ pc' = Goto(t, "L151")
        /\ trace' = Did(t, "save_sub_base64_and_clash")
        /\ UNCHANGED node_n
  /\ UNCHANGED <<cache, lock, turn, sub, ret, world, client>>

\* int(g0(cache, 'node_n', 0)) of line 147.
CachedNodes(c) == int(g0(c, NODE_N, <<"0">>))

\* The value line 149 stores under 'node_n'.
NodeEntry(n) == Str(str(n))

\* Lines 147-149, inside the lock: log a changed node count, store it.
save_sub_node_n(t) ==
  /\ pc[t] = "L147"
  /\ LET d == node_n[t] - CachedNodes(cache) IN
       log' = Logged(t, IF d # 0 THEN <<"node count changed">> ELSE <<>>)
  /\ cache' = Put(cache, NODE_N, NodeEntry(node_n[t]))
  /\ lock' = Release(t)
  /\ pc' = Goto(t, "L162")
  /\ UNCHANGED <<turn, sub, ret, err, node_n, world, trace, client>>

\* Line 152, inside the lock: cache['保存base64/clash订阅失败'] = [str(e)].
save_sub_b64_failed(t) ==
  /\ pc[t] = "L152"
  /\ cache' = Put(cache, SAVE_B64_FAILED, List(<<<<err[t]>>>>))
  /\ lock' = Release(t)
  /\ pc' = Goto(t, "L153")
  /\ UNCHANGED <<log, turn, sub, ret, err, node_n, world, trace, client>>

\* Line 153: log; save_sub returns.
save_sub_b64_failed_log(t) ==
  /\ pc[t] = "L153"
  /\ log' = Logged(t, <<"failed to save base64/clash">>)
  /\ pc' = Goto(t, "L162")
  /\ UNCHANGED <<cache, lock, turn, sub, ret, err, node_n, world, trace, client>>

\* ------------------------------------------------------- specifications

Next ==
  \E t \in Pool :
    \/ acquire(t)
    \/ new_panel_session_check(t)
    \/ new_panel_session_detect(t)
    \/ new_panel_session_return(t)
    \/ get_and_save_start(t)
    \/ try_turn_pop(t)
    \/ should_turn_step(t)
    \/ try_turn_old_failed(t)
    \/ try_turn_old_failed_return(t)
    \/ do_turn_step(t)
    \/ try_turn_turn_failed(t)
    \/ try_turn_turn_failed_return(t)
    \/ get_sub_start(t)
    \/ get_sub_request(t)
    \/ get_sub_rewrite(t)
    \/ try_turn_fetched(t)
    \/ try_turn_get_failed(t)
    \/ try_turn_get_failed_log(t)
    \/ try_turn_return(t)
    \/ get_and_save_dispatch(t)
    \/ get_and_save_end(t)
    \/ save_sub_pop(t)
    \/ cache_sub_info_step(t)
    \/ cache_sub_info_store(t)
    \/ cache_sub_info_done(t)
    \/ save_sub_info_failed(t)
    \/ save_sub_info_failed_log(t)
    \/ save_sub_base64_and_clash(t)
    \/ save_sub_node_n(t)
    \/ save_sub_b64_failed(t)
    \/ save_sub_b64_failed_log(t)

\* The sample driver: one task on one cache.
Spec == Init /\ [][Next]_vars

\* Several tasks interleaving on one cache.
SpecConc == InitConc /\ [][Next]_vars

\* One task running get_and_save cycle after cycle on the driver's cache.
InitAgain == InitTasks({1}, {DriverCache}, "again") /\ client = NoClient
NextAgain == Next \/ \E t \in Pool : get_and_save_again(t)
SpecAgain == InitAgain /\ [][NextAgain]_vars

\* --------------------------------------------------------- 01.py: APIClient

\* The variables of get_trial.py, which 01.py does not touch.
trial == <<cache, lock, log, pc, turn, sub, ret, err, node_n, world, trace>>

\* Response bodies: not JSON at all, a JSON array, {}, {"message": ...}, and
\* {"data": {"auth_data": ..., "token": ..., "subscribe_url": ...}}.
Bodies == {"html", "array", "empty", "message", "data"}
\* response.json() decodes the body, or raises a JSONDecodeError.
Decodes(b) == b # "html"
\* The decoded value is a dict, so it has .get.
IsDict(b) == b \in {"empty", "message", "data"}
\* `if result:` (lines 42, 51, 65): None, {} are false.
TruthyResult(r) == r \in {"array", "message", "data"}
\* result["data"][...] (lines 52, 53, 66) finds its keys.
HasData(r) == r = "data"

\* What requests.request delivers: a response, with ok = status below 400.
Responses == [ok : BOOLEAN, body : Bodies]
NoResponse == [ok |-> FALSE, body |-> "html"]
\* What requests.request raises, and the handler line that takes it.
RequestErrors == {"Timeout", "ConnectionError", "InvalidURL"}
HandlerOf(e) ==
  CASE e = "Timeout" -> "L28" [] e = "ConnectionError" -> "L30" [] OTHER -> "L35"

\* Lines 86-95: APIClient() with the generated email and password.
InitClient ==
  /\ InitTasks({}, {DriverCache}, "few")
  /\ client = [pc |-> "L96", op |-> "", response |-> NoResponse,
               result |-> "None", token |-> "None", logging |-> <<>>,
               raised |-> "", handled |-> FALSE]

At(l) == client.pc = l
\* logging.info / logging.error
Logging(c, entry) == [c EXCEPT !.logging = @ \o <<entry>>]
\* An exception leaves the function at line l and ends the script.
Raise(c, l) == [c EXCEPT !.pc = "raised", !.raised = l]
\* make_request(...) called by operation op.
Request(c, op) ==
  [c EXCEPT !.pc = "L24", !.op = op, !.response = NoResponse, !.handled = FALSE]
\* The line make_request returns to.
ReturnTo(op) ==
  CASE op = "register" -> "L42" [] op = "login" -> "L51" [] op = "subscribe" -> "L65"

\* Lines 96, 40-41: register_user posts the account.
register_user ==
  /\ At("L96")
  /\ client' = Request(client, "register")
  /\ UNCHANGED trial

\* Lines 42-45: log the outcome of the registration.
register_user_result ==
  /\ At("L42")
  /\ client' = [Logging(client, IF TruthyResult(client.result)
                                THEN "registered" ELSE "registration failed")
                  EXCEPT !.pc = "L97"]
  /\ UNCHANGED trial

\* Lines 97, 49-50: authenticate_user posts the login.
authenticate_user ==
  /\ At("L97")
  /\ client' = Request(client, "login")
  /\ UNCHANGED trial

\* Lines 51-56: keep the token, or log the failure.
authenticate_user_result ==
  /\ At("L51")
  /\ client' =
       IF TruthyResult(client.result)
       THEN IF HasData(client.result)
            THEN [Logging(client, "logged in") EXCEPT !.pc = "L100",
                                                      !.token = "auth_data"]
            ELSE Raise(client, "L52")
       ELSE [Logging(client, "login failed") EXCEPT !.pc = "L100",
                                                    !.token = "None"]
  /\ UNCHANGED trial

\* Lines 100-102, 60-64 and 107-108: with a token ask for the link.
get_subscription_link ==
  /\ At("L100")
  /\ client' =
       IF client.token # "None"
       THEN Request(Logging(client, "getting subscription link"), "subscribe")
       ELSE [Logging(client, "cannot get link, login failed") EXCEPT !.pc = "exit"]
  /\ UNCHANGED trial

\* Lines 65-68 and 103-106: return the link, or log and return None.
get_subscription_link_result ==
  /\ At("L65")
  /\ client' =
       IF TruthyResult(client.result)
       THEN IF HasData(client.result)
            THEN [Logging(client, "subscription link") EXCEPT !.pc = "exit"]
            ELSE Raise(client, "L66")
       ELSE [Logging(Logging(client, "getting link failed"), "no subscription link")
               EXCEPT !.pc = "exit"]
  /\ UNCHANGED trial

\* Line 24: requests.request(..., timeout=10) returns a response or raises.
make_request_send ==
  /\ At("L24")
  /\ \/ \E r \in Responses :
          client' = [client EXCEPT !.pc = "L25", !.response = r]
     \/ \E e \in RequestErrors :
          client' = [client EXCEPT !.pc = HandlerOf(e)]
  /\ UNCHANGED trial

\* Line 25: response.raise_for_status() raises HTTPError for an error status.
make_request_status ==
  /\ At("L25")
  /\ client' = [client EXCEPT !.pc = IF client.response.ok THEN "L26" ELSE "L32"]
  /\ UNCHANGED trial

\* Line 26: return response.json(); a JSONDecodeError goes to line 34.
make_request_json ==
  /\ At("L26")
  /\ client' =
       IF Decodes(client.response.body)
       THEN [client EXCEPT !.pc = ReturnTo(client.op),
                           !.result = client.response.body]
       ELSE [client EXCEPT !.pc = "L35"]
  /\ UNCHANGED trial

\* Lines 27-28: except requests.Timeout.
make_request_timeout ==
  /\ At("L28")
  /\ client' = [Logging(client, "request timed out") EXCEPT !.pc = "L36",
                                                             !.handled = TRUE]
  /\ UNCHANGED trial

\* Lines 29-30: except requests.ConnectionError.
make_request_connection ==
  /\ At("L30")
  /\ client' = [Logging(client, "cannot connect") EXCEPT !.pc = "L36",
                                                          !.handled = TRUE]
  /\ UNCHANGED trial

\* Lines 31-33: except HTTPError: e.response.json().get("message", ...) and
\* the log line. The handler decodes the error body itself: .json() raises
\* for a body that is not JSON and .get for one that is not a dict, and no
\* clause of this try catches what a handler raises.
make_request_http_error ==
  /\ At("L32")
  /\ client' =
       IF Decodes(client.response.body) /\ IsDict(client.response.body)
       THEN [Logging(client, IF client.response.body = "message"
                             THEN "HTTP error: message"
                             ELSE "HTTP error: unknown error")
               EXCEPT !.pc = "L36", !.handled = TRUE]
       ELSE Raise(client, "L32")
  /\ UNCHANGED trial

\* Lines 34-35: except Exception.
make_request_unknown ==
  /\ At("L35")
  /\ client' = [Logging(client, "unknown error") EXCEPT !.pc = "L36",
                                                         !.handled = TRUE]
  /\ UNCHANGED trial

\* Line 36: return None.
make_request_none ==
  /\ At("L36")
  /\ client' = [client EXCEPT !.pc = ReturnTo(client.op), !.result = "None"]
  /\ UNCHANGED trial

NextClient ==
  \/ register_user
  \/ register_user_result
  \/ authenticate_user
  \/ authenticate_user_result
  \/ get_subscription_link
  \/ get_subscription_link_result
  \/ make_request_send
  \/ make_request_status
  \/ make_request_json
  \/ make_request_timeout
  \/ make_request_connection
  \/ make_request_http_error
  \/ make_request_unknown
  \/ make_request_none

\* The script 01.py, lines 84-108.
SpecClient == InitClient /\ [][NextClient]_vars


\* ---------------------------------------------------------- properties

SameEntry(c1, c2, k) == /\ Has(c1, k) <=> Has(c2, k)
                        /\ Has(c1, k) => c1[k] = c2[k]

InLog(t, entry) == \E i \in 1..Len(log[t]) : log[t][i] = entry

Called(t, what) == what \in trace[t].did

\* try_turn ran should_turn and it raised.
DecisionFailed(t) == Called(t, "should_turn") /\ ~Called(t, "decided")
\* do_turn ran after a successful decision and raised.
RenewalFailed(t) == Called(t, "do_turn") /\ ~Called(t, "turned")
\* get_sub ran after a successful renewal and raised, and the handler of
\* lines 78-81 has finished.
FetchFailed(t) == Called(t, "get_sub") /\ ~Called(t, "fetched")
Returned(t) == Called(t, "returned")

MarkersSet(c) == DOMAIN c \cap Markers

\* C1 as stated: after a cycle whose decision step failed, no renewal and no
\* fetch ran, try_turn returned None, and of all five failure markers only
\* the update-old-subscription-failed marker is in the cache.
C1_OnlyMarkerOfAll ==
  \A t \in Pool :
    (pc[t] = "done" /\ DecisionFailed(t)) =>
      /\ ~Called(t, "do_turn") /\ ~Called(t, "get_sub")
      /\ ret[t] = None
      /\ MarkersSet(cache) = {OLD_SUB_FAILED}

\* C1 amended: after a cycle whose decision step failed, no renewal and no
\* fetch ran, try_turn returned None, the save stage did not run, the
\* update-old-subscription-failed marker is the only one of try_turn's three
\* markers in the cache, and the two save markers are as they were before
\* the cycle.
C1_OnlyTurnMarker ==
  \A t \in Pool :
    (pc[t] = "done" /\ DecisionFailed(t)) =>
      /\ ~Called(t, "do_turn") /\ ~Called(t, "get_sub") /\ ~Called(t, "save_sub")
      /\ ret[t] = None
      /\ DOMAIN cache \cap TurnMarkers = {OLD_SUB_FAILED}
      /\ cache[OLD_SUB_FAILED] = List(<<<<"should_turn failed">>>>)
      /\ \A k \in SaveMarkers : SameEntry(cache, trace[t].pre, k)

\* A finished cycle whose decision failed, on a cache that held the two other
\* try_turn markers and a save marker before it.
C1_Witness ==
  \E t \in Pool :
    /\ pc[t] = "done" /\ DecisionFailed(t)
    /\ {TURN_FAILED, GET_SUB_FAILED, SAVE_B64_FAILED} \subseteq DOMAIN trace[t].pre

\* C2: when do_turn fails after a successful decision, try_turn returns the
\* decision step's subscription data unchanged, the renewal-failed marker
\* holds the error, and get_sub is never executed.
C2_RenewalFailureKeepsSub ==
  \A t \in Pool :
    (Returned(t) /\ RenewalFailed(t)) =>
      /\ ret[t] = Some(trace[t].dsub)
      /\ Has(cache, TURN_FAILED)
      /\ cache[TURN_FAILED] = List(<<<<"do_turn failed">>>>)
      /\ ~Called(t, "get_sub")

\* try_turn returned after a failed renewal, with subscription data to return.
C2_Witness ==
  \E t \in Pool :
    /\ Returned(t) /\ RenewalFailed(t)
    /\ Len(trace[t].dsub) = 5 /\ ret[t] = Some(trace[t].dsub)

\* save_sub was entered by this task with an empty info payload.
SavingEmpty(t) == Called(t, "save_sub") /\ Falsy(InfoArg(t))

\* C3: saving with an empty info payload: cache_sub_info raises 'no sub info'
\* before it reaches the cache, the error is what save_sub records, and the
\* sub_info entry stays what it was when save_sub was called.
C3_EmptyInfoNeverCached ==
  \A t \in Pool :
    SavingEmpty(t) =>
      /\ SameEntry(cache, trace[t].presave, SUB_INFO)
      /\ pc[t] \notin {"L103", "L104", "L105"}
      /\ pc[t] \in {"L140", "L141"} => err[t] = "no sub info"
      /\ pc[t] \in {"L142", "L145", "L146", "L147", "L151", "L152", "L153", "L162", "done"} =>
           /\ Has(cache, SAVE_INFO_FAILED)
           /\ cache[SAVE_INFO_FAILED] = List(<<<<"no sub info">>>>)
           /\ InLog(t, "info is empty")

\* save_sub has returned from a call with an empty info, on a cache that held
\* a sub_info entry.
C3_Witness ==
  \E t \in Pool :
    /\ SavingEmpty(t) /\ pc[t] = "done"
    /\ Has(trace[t].presave, SUB_INFO)

\* The lines inside a `with cache_lock:` block, and those that write the cache.
BodyLines == {BodyOf(l) : l \in WithLines} \cup {"L168"}
WritingLines == BodyLines \ {"L44", "L167"}
InBody(t) == pc[t] \in BodyLines

\* C4 as stated: every key of the cache maps to a list of strings.
C4_AllValuesAreLists == \A k \in DOMAIN cache : cache[k].ty = "list"

\* C5: every step that changes the cache is taken by the task holding
\* cache_lock, a task inside a `with` block holds the lock, and no two tasks
\* are inside `with` blocks at once.
C5_WritesUnderLock ==
  /\ [][cache' # cache => \E t \in lock : pc[t] \in WritingLines /\ pc'[t] # pc[t]]_vars
  /\ [](\A t \in Pool : InBody(t) => lock = {t})
  /\ [](\A t, u \in Pool : (InBody(t) /\ InBody(u)) => t = u)

\* One task is about to store sub_info inside cache_sub_info's block while
\* another waits at try_turn's line 60 to record its marker.
C5_Witness ==
  \E t, u \in Pool :
    /\ t # u /\ lock = {t}
    /\ pc[t] = "L104" /\ pc[u] = "L60"

\* The lines that read the cache outside any `with` block: cache['sub_url'][0]
\* at 23, 62 and 81, should_turn(session, opt, cache) at 58 (entered from 55),
\* g0(cache, 'type') at 176.
ReadLines == {"L23", "L55", "L62", "L81", "L176"}

\* C6 as stated: no task reads the cache while another task holds cache_lock
\* inside a block of try_turn, cache_sub_info or save_sub that writes it.
C6_ReadsSerialized ==
  [][\A t \in Pool :
       (pc[t] \in ReadLines /\ pc'[t] # pc[t]) =>
         \A u \in lock : u = t \/ pc[u] \notin WritingLines \ {"L168"}]_vars

\* C7 as stated: get_and_save never raises, and a finished call has logged
\* its closing line.
C7_NeverFatal ==
  \A t \in Pool :
    /\ pc[t] # "raised"
    /\ pc[t] = "done" => InLog(t, "completed processing")

\* C8 as stated: once renewal and re-fetch both succeeded, the call ends
\* normally, having run save_sub on the fetched data.
C8_FetchedIsSaved ==
  \A t \in Pool :
    (Called(t, "turned") /\ Called(t, "fetched") /\ pc[t] \in {"done", "raised"}) =>
      /\ pc[t] = "done"
      /\ Called(t, "save_sub")
      /\ ret[t] = Some(sub[t])

\* C9: when get_sub fails after a successful decision and renewal, try_turn
\* records the error under the fetch-failed key only, logs it, and returns
\* the decision step's subscription data.
C9_FetchFailureKeepsSub ==
  \A t \in Pool :
    (Returned(t) /\ FetchFailed(t)) =>
      /\ Called(t, "decided") /\ Called(t, "turned")
      /\ ret[t] = Some(trace[t].dsub)
      /\ DOMAIN cache \cap TurnMarkers = {GET_SUB_FAILED}
      /\ \E e \in FetchErrors : cache[GET_SUB_FAILED] = List(<<<<e>>>>)
      /\ InLog(t, "failed to fetch subscription")

\* try_turn returned after a failed fetch, with subscription data to return.
C9_Witness ==
  \E t \in Pool :
    /\ Returned(t) /\ FetchFailed(t)
    /\ Len(trace[t].dsub) = 5 /\ ret[t] = Some(trace[t].dsub)
    /\ Has(trace[t].pre, TURN_FAILED)

\* C10: save_sub never raises, and once it has returned: the base64/clash
\* step ran whatever cache_sub_info did; a cache_sub_info failure is recorded
\* under its own marker and left sub_info alone, a success stored sub_info and
\* it is still there; a base64/clash failure is recorded under its own marker.
C10_SaveStepsIsolated ==
  \A t \in Pool :
    Called(t, "save_sub") =>
      /\ pc[t] # "raised"
      /\ pc[t] = "done" =>
           /\ Called(t, "cache_sub_info") /\ Called(t, "save_sub_base64_and_clash")
           /\ LET e == CacheSubInfoError(InfoArg(t)) IN
                IF e # ""
                THEN /\ Has(cache, SAVE_INFO_FAILED)
                     /\ cache[SAVE_INFO_FAILED] = List(<<<<e>>>>)
                     /\ SameEntry(cache, trace[t].presave, SUB_INFO)
                ELSE /\ ~Has(cache, SAVE_INFO_FAILED)
                     /\ Has(cache, SUB_INFO)
                     /\ cache[SUB_INFO] = SubInfoOf(InfoArg(t))
           /\ IF Called(t, "saved")
              THEN ~Has(cache, SAVE_B64_FAILED)
              ELSE /\ Has(cache, SAVE_B64_FAILED)
                   /\ cache[SAVE_B64_FAILED] = List(<<<<"gen failed">>>>)

\* save_sub has returned from a call in which both steps failed.
C10_Witness ==
  \E t \in Pool :
    /\ Called(t, "save_sub") /\ pc[t] = "done"
    /\ CacheSubInfoError(InfoArg(t)) # ""
    /\ Called(t, "save_sub_base64_and_clash") /\ ~Called(t, "saved")

\* C11: do_turn is called iff should_turn succeeded with a non-zero code, with
\* force_reg true iff the code is 2; get_sub is called only after do_turn
\* returned; with code 0 try_turn returns the decision's data and sets no
\* marker.
C11_TurnCodeDrivesSteps ==
  \A t \in Pool :
    /\ Called(t, "do_turn") =>
         /\ Called(t, "decided") /\ turn[t] # 0
         /\ trace[t].force <=> turn[t] = 2
    /\ Called(t, "get_sub") => Called(t, "turned")
    /\ Returned(t) =>
         /\ Called(t, "do_turn") <=> (Called(t, "decided") /\ turn[t] # 0)
         /\ (Called(t, "decided") /\ turn[t] = 0) =>
              /\ ret[t] = Some(trace[t].dsub)
              /\ DOMAIN cache \cap TurnMarkers = {}

\* try_turn returned after a forced re-registration and a fetch attempt.
C11_Witness ==
  \E t \in Pool :
    /\ Returned(t) /\ turn[t] = 2 /\ trace[t].force
    /\ Called(t, "turned") /\ Called(t, "get_sub")

\* C12: for a single task, once try_turn has returned each of its three
\* markers is in the cache iff its step (decide, renew, fetch) failed in this
\* invocation; so at most one is present and none is left from before.
C12_MarkersMatchThisCall ==
  \A t \in Pool :
    Returned(t) =>
      /\ Has(cache, OLD_SUB_FAILED) <=> DecisionFailed(t)
      /\ Has(cache, TURN_FAILED) <=> RenewalFailed(t)
      /\ Has(cache, GET_SUB_FAILED) <=> FetchFailed(t)
      /\ Cardinality(DOMAIN cache \cap TurnMarkers) <= 1
      /\ \A k \in DOMAIN cache \cap TurnMarkers : cache[k] # Stale(k)

\* try_turn returned without any failure, on a cache that held all three
\* markers before the call.
C12_Witness ==
  \E t \in Pool :
    /\ Returned(t) /\ Called(t, "decided") /\ turn[t] = 0
    /\ TurnMarkers \subseteq DOMAIN trace[t].pre

\* The entries the save stage writes.
SaveEntries == {SUB_INFO, NODE_N} \cup SaveMarkers

\* C14: when try_turn returns None or an empty list, get_and_save skips the
\* save stage and finishes normally, and sub_info, node_n and the two save
\* markers are what they were before the cycle.
C14_NoDataNoSave ==
  \A t \in Pool :
    (Returned(t) /\ (ret[t] = None \/ ret[t] = Some(<<>>))) =>
      /\ pc[t] \in {"L160", "L162", "done"}
      /\ ~Called(t, "save_sub")
      /\ \A k \in SaveEntries : SameEntry(cache, trace[t].pre, k)

\* A cycle finished on an empty result, on a cache that held a sub_info entry
\* and both save markers before it.
C14_Witness ==
  \E t \in Pool :
    /\ pc[t] = "done" /\ ret[t] = Some(<<>>)
    /\ {SUB_INFO} \cup SaveMarkers \subseteq DOMAIN trace[t].pre

\* A task that returned from new_panel_session, get_and_save or by an
\* exception, or was never started.
Finished == {"idle", "no_session", "raised", "done"}

\* C15: cache_lock is held only by a task inside a `with` block, so a task
\* at a `with` line does not hold it and a task that left a block, by its
\* end, by an exception or by new_panel_session's `return None`, holds
\* nothing; and unless every task has finished some task can take a step.
C15_LockAlwaysReleased ==
  /\ \A t \in lock : InBody(t)
  /\ \A t \in Pool : pc[t] \in WithLines \cup Finished => t \notin lock
  /\ (\A t \in Pool : pc[t] \in Finished) \/ ENABLED Next

\* One task left new_panel_session by `return None` and the other then
\* took the lock and raised inside save_sub's block at lines 146-149.
C15_Witness ==
  \E t, u \in Pool :
    /\ pc[t] = "no_session"
    /\ pc[u] = "L152" /\ lock = {u}

\* C16: guess_panel is called only while 'type' is not in the cache, so at
\* most one call of new_panel_session on a cache detects the type and merges
\* it.
C16_DetectsOnce ==
  [][\A t \in Pool :
       (Called(t, "guess_panel")' /\ ~Called(t, "guess_panel")) =>
         /\ ~Has(cache, TYPE)
         /\ \A u \in Pool \ {t} : ~Called(u, "detected")]_vars

\* One task detected the type and another, which waited for the lock
\* meanwhile, built its session without calling guess_panel.
C16_Witness ==
  \E t, u \in Pool :
    /\ Called(t, "detected")
    /\ Called(u, "session") /\ ~Called(u, "guess_panel")

\* C17: a detection whose result has no 'type' ends the call with None,
\* the cache as it was, one more log entry and no session; the type is still
\* not cached, so the next call detects again.
C17_FailedDetectionLeavesCache ==
  [][\A t \in Pool :
       /\ (pc'[t] = "no_session" /\ pc[t] # "no_session") =>
         /\ Called(t, "guess_panel")' /\ ~Called(t, "session")'
         /\ cache' = cache /\ ~Has(cache', TYPE)
         /\ Len(log'[t]) = Len(log[t]) + 1
       /\ (pc[t] = "L167" /\ pc'[t] # "L167" /\ ~Has(cache, TYPE)) =>
            pc'[t] = "L168"]_vars

\* Two calls on the same cache both ran detection and both failed.
C17_Witness ==
  \E t, u \in Pool :
    /\ t # u /\ pc[t] = "no_session" /\ pc[u] = "no_session"
    /\ Called(t, "guess_panel") /\ Called(u, "guess_panel")
    /\ Len(log[t]) = 1 /\ Len(log[u]) = 1

\* The node count a cache entry written by line 149 stands for.
CountOf(entry) == int(entry.v)

\* The entries the task appended in its current cycle.
CycleLog(t) == SubSeq(log[t], trace[t].logged + 1, Len(log[t]))

\* C18 as stated: after a save whose base64/clash step succeeded node_n stands
\* for the count just saved, and the cycle logged a changed node count iff
\* that count differs from the one the previous successful save recorded.
C18_NodeChangeLogged ==
  \A t \in Pool :
    (pc[t] = "done" /\ Called(t, "saved") /\ Has(trace[t].pre, NODE_N)) =>
      /\ Has(cache, NODE_N) /\ CountOf(cache[NODE_N]) = node_n[t]
      /\ (\E i \in DOMAIN CycleLog(t) : CycleLog(t)[i] = "node count changed")
           <=> node_n[t] # CountOf(trace[t].pre[NODE_N])

\* The lines of make_request.
RequestLines == {"L24", "L25", "L26", "L28", "L30", "L32", "L35", "L36"}

\* A returned call gave the decoded body after a good response, else None
\* after logging.
RequestReturnsJsonOrNone ==
  client.pc \in {"L42", "L51", "L65"} =>
    IF client.response.ok /\ Decodes(client.response.body)
    THEN client.result = client.response.body /\ ~client.handled
    ELSE client.result = "None" /\ client.handled

\* C13 as stated: no exception leaves make_request; a call returns the decoded
\* body only after a response with a good status, and after any failure it
\* has logged the error and returns None.
C13_RequestErrorsHandled ==
  /\ client.pc = "raised" => client.raised \notin RequestLines
  /\ RequestReturnsJsonOrNone

====
